---- MODULE Spec2Model ----
(***************************************************************************)
(* Model of ChatServer (src/server.py): the session table `clients`, the   *)
(* room table `rooms`, one handle_client task per connection, and the      *)
(* fan-out loop of broadcast_room.                                         *)
(*                                                                         *)
(* Scheduling: asyncio runs the tasks cooperatively on one thread, so the  *)
(* code between two awaits is one atomic step.  A request handler mutates  *)
(* the tables and then awaits the drain of its response; nothing follows   *)
(* that await but the return, so a handler is one action whose response    *)
(* drain returns, or raises when the connection has lost its peer.         *)
(* broadcast_room awaits a drain inside its for loop,                      *)
(* so every loop iteration is a step of its own and other tasks may run    *)
(* between two iterations.                                                 *)
(*                                                                         *)
(* A room's member set is a Python set: a hash table that the for loop     *)
(* walks slot by slot through a live iterator.  The slot a name lands in   *)
(* depends on the string hash seed and on the table's history, so an       *)
(* insertion picks any free slot.                                          *)
(***************************************************************************)
EXTENDS Integers, Sequences, FiniteSets, TLC

\* ---- bounds -------------------------------------------------------------
MaxReq == 4          \* request lines read by the server, all connections
NSlots == 3          \* slots of a room's hash table

\* ---- input domains ------------------------------------------------------
Conns == {1, 2}                      \* connections accepted by the server
Slots == 1 .. NSlots
None == "None"                       \* Python None, also a missing field
Names == {"alice", "bob"}            \* usernames a client may ask for
DefaultRoom == "general"
RoomNames == {DefaultRoom, "sports"}
Texts == {"hello"}

\* ---- state --------------------------------------------------------------
VARIABLES
    clients,    \* self.clients: username -> [writer, room]
    rooms,      \* self.rooms: room name -> hash table of member names
    pc,         \* the await at which each handle_client task is suspended
    username,   \* the local variable `username` of each handle_client task
    lost,       \* lost[c]: the transport of connection c lost its peer
    resp,       \* the frames the latest request handler wrote to its own writer
    inbox,      \* inbox[c]: chat frames handed to writer.write of c, in order
    bc,         \* bc[c]: the broadcast_room call of task c (iterator + record)
    exit,       \* exit[c]: how the handler loop of c ended
    joined,     \* history: names whose current room was entered by join_room
    nb,         \* number of broadcast_room invocations so far
    nreq        \* number of request lines read so far

vars == <<clients, rooms, pc, username, lost, resp, inbox, bc, exit, joined, nb, nreq>>

\* ---- frames (the payloads handed to send_json / broadcast_room) ---------
ErrorFrame(m) == [type |-> "error", message |-> m]
RegisteredFrame(u) == [type |-> "info", message |-> <<"Registered as", u>>, room |-> DefaultRoom]
RoomCreatedFrame(r) == [type |-> "info", message |-> <<"Room created", r>>]
RoomListFrame(rm) == [type |-> "room_list", rooms |-> DOMAIN rm]
RoomJoinedFrame(r) == [type |-> "room_joined", room |-> r]
RoomLeftFrame(r) == [type |-> "room_left", room |-> r]
ChatFrame(r, u, t) == [type |-> "chat_message", room |-> r, from |-> u, message |-> t]

\* ---- Python set as a hash table -----------------------------------------
EmptyTable == [s \in Slots |-> None]
Members(t) == {t[s] : s \in Slots} \ {None}
\* set.add: no change when present, else the name takes a free slot
SetAdd(t, u) ==
    IF u \in Members(t) THEN {t}
    ELSE {[t EXCEPT ![s] = u] : s \in {x \in Slots : t[x] = None}}
\* set.remove
SetRemove(t, u) == [s \in Slots |-> IF t[s] = u THEN None ELSE t[s]]
\* self.rooms.get(room, set())
RoomsGet(rm, r) == IF r \in DOMAIN rm THEN rm[r] ELSE EmptyTable

\* iter(users): the iterator remembers the set's size and a table position
NewIter(t) == [pos |-> 0, used |-> Cardinality(Members(t))]
\* next(it): the slot of the next entry, or RuntimeError (Set changed size
\* during iteration), or StopIteration
IterNext(t, it) ==
    IF Cardinality(Members(t)) # it.used THEN [tag |-> "RuntimeError", slot |-> 0]
    ELSE LET later == {s \in Slots : s > it.pos /\ t[s] # None}
         IN  IF later = {} THEN [tag |-> "StopIteration", slot |-> 0]
             ELSE [tag |-> "item", slot |-> CHOOSE s \in later : \A x \in later : s <= x]

\* ---- cleanup_client ------------------------------------------------------
DictPop(cl, u) == [n \in DOMAIN cl \ {u} |-> cl[n]]

CleanupClients(cl, u) == IF u \in DOMAIN cl THEN DictPop(cl, u) ELSE cl

\* variant: the record is popped but the name stays in its room
CleanupRooms_KeepsMember(cl, rm, u) == rm

\* variant: a room that the departing session leaves empty is deleted
CleanupRooms_DeletesEmpty(cl, rm, u) ==
    IF u \notin DOMAIN cl THEN rm
    ELSE LET room == cl[u].room
         IN  IF room # None /\ u \in Members(RoomsGet(rm, room))
             THEN IF Members(rm[room]) = {u}
                  THEN [r \in DOMAIN rm \ {room} |-> rm[r]]
                  ELSE [rm EXCEPT ![room] = SetRemove(rm[room], u)]
             ELSE rm

CleanupRooms(cl, rm, u) ==
    IF u \notin DOMAIN cl THEN rm
    ELSE LET room == cl[u].room
         IN  IF room # None /\ u \in Members(RoomsGet(rm, room))
             THEN [rm EXCEPT ![room] = SetRemove(rm[room], u)]
             ELSE rm

\* ---- end of handle_client: the except clauses and the finally block -----
\* `why` names the way the loop ended; cl and rm are the tables at that
\* moment, uname the value of the local `username`.
Terminate(c, why, cl, rm, jn, uname) ==
    /\ clients' = IF uname # None THEN CleanupClients(cl, uname) ELSE cl
    /\ joined' = jn \ {uname}
    /\ rooms' = IF uname # None THEN CleanupRooms(cl, rm, uname) ELSE rm
    /\ pc' = [pc EXCEPT ![c] = "closed"]
    /\ exit' = [exit EXCEPT ![c] = why]
    /\ username' = [username EXCEPT ![c] = uname]

\* ---- send_json / send_error ----------------------------------------------
NoResponse == [conn |-> 0, frames |-> <<>>]

\* A handler that left the tables as cl, rm, writes `frames` to its own
\* writer and would return with username = uname.  The drain of a write
\* raises when the transport has lost its peer: the exception leaves the
\* handler after the first write, before `username` is assigned, and ends
\* the loop of handle_client.
Respond(c, cl, rm, jn, frames, uname) ==
    IF lost[c]
    THEN /\ resp' = [conn |-> c, frames |-> SubSeq(frames, 1, 1)]
         /\ Terminate(c, "ConnectionError", cl, rm, jn, username[c])
    ELSE /\ resp' = [conn |-> c, frames |-> frames]
         /\ clients' = cl
         /\ rooms' = rm
         /\ joined' = jn
         /\ username' = [username EXCEPT ![c] = uname]
         /\ UNCHANGED <<pc, exit>>

\* reader.readline() returned a request line
ReadLine(c) ==
    /\ pc[c] = "readline"
    /\ nreq < MaxReq
    /\ nreq' = nreq + 1

\* ---- handle_register -----------------------------------------------------
\* variant: no check of line 103, a taken name is registered again
Register_IgnoresTaken(c, name) ==
    /\ ReadLine(c)
    /\ IF name = None
       THEN Respond(c, clients, rooms, joined, <<ErrorFrame("username required")>>, None)
       ELSE \E t \in SetAdd(rooms[DefaultRoom], name) :
              Respond(c,
                      [n \in DOMAIN clients \cup {name} |->
                          IF n = name THEN [writer |-> c, room |-> DefaultRoom]
                          ELSE clients[n]],
                      [rooms EXCEPT ![DefaultRoom] = t],
                      joined \ {name},
                      <<RegisteredFrame(name)>>, name)
    /\ UNCHANGED <<lost, inbox, bc, nb>>

\* variant: line 109 is missing, the name is not added to "general"
Register_NoDefaultRoom(c, name) ==
    /\ ReadLine(c)
    /\ IF name = None
       THEN Respond(c, clients, rooms, joined, <<ErrorFrame("username required")>>, None)
       ELSE IF name \in DOMAIN clients
       THEN Respond(c, clients, rooms, joined, <<ErrorFrame("username already taken")>>, None)
       ELSE Respond(c,
                    [n \in DOMAIN clients \cup {name} |->
                        IF n = name THEN [writer |-> c, room |-> DefaultRoom]
                        ELSE clients[n]],
                    rooms,
                    joined \ {name},
                    <<RegisteredFrame(name)>>, name)
    /\ UNCHANGED <<lost, inbox, bc, nb>>

Register(c, name) ==
    /\ ReadLine(c)
    /\ IF name = None
       THEN Respond(c, clients, rooms, joined, <<ErrorFrame("username required")>>, None)
       ELSE IF name \in DOMAIN clients
       THEN Respond(c, clients, rooms, joined, <<ErrorFrame("username already taken")>>, None)
       ELSE \E t \in SetAdd(rooms[DefaultRoom], name) :
              Respond(c,
                      [n \in DOMAIN clients \cup {name} |->
                          IF n = name THEN [writer |-> c, room |-> DefaultRoom]
                          ELSE clients[n]],
                      [rooms EXCEPT ![DefaultRoom] = t],
                      joined \ {name},
                      <<RegisteredFrame(name)>>, name)
    /\ UNCHANGED <<lost, inbox, bc, nb>>

\* ---- handle_list_rooms ---------------------------------------------------
ListRooms(c) ==
    /\ ReadLine(c)
    /\ Respond(c, clients, rooms, joined, <<RoomListFrame(rooms)>>, username[c])
    /\ UNCHANGED <<lost, inbox, bc, nb>>

\* ---- handle_create_room --------------------------------------------------
\* variant: no test of `username` at line 126
CreateRoom_NoRegisterCheck(c, room) ==
    /\ ReadLine(c)
    /\ IF room = None
       THEN Respond(c, clients, rooms, joined, <<ErrorFrame("room name required")>>, username[c])
       ELSE IF room \in DOMAIN rooms
       THEN Respond(c, clients, rooms, joined, <<ErrorFrame("room already exists")>>, username[c])
       ELSE LET rm == [r \in DOMAIN rooms \cup {room} |->
                          IF r = room THEN EmptyTable ELSE rooms[r]]
            IN  Respond(c, clients, rm, joined,
                        <<RoomCreatedFrame(room), RoomListFrame(rm)>>, username[c])
    /\ UNCHANGED <<lost, inbox, bc, nb>>

\* variant: the creator is put into the room it creates
CreateRoom_MovesCreator(c, room) ==
    /\ ReadLine(c)
    /\ IF username[c] = None
       THEN Respond(c, clients, rooms, joined, <<ErrorFrame("register first")>>, username[c])
       ELSE IF room = None
       THEN Respond(c, clients, rooms, joined, <<ErrorFrame("room name required")>>, username[c])
       ELSE IF room \in DOMAIN rooms
       THEN Respond(c, clients, rooms, joined, <<ErrorFrame("room already exists")>>, username[c])
       ELSE \E t \in SetAdd(EmptyTable, username[c]) :
              LET rm == [r \in DOMAIN rooms \cup {room} |->
                            IF r = room THEN t ELSE rooms[r]]
              IN  Respond(c, clients, rm, joined,
                          <<RoomCreatedFrame(room), RoomListFrame(rm)>>, username[c])
    /\ UNCHANGED <<lost, inbox, bc, nb>>

CreateRoom(c, room) ==
    /\ ReadLine(c)
    /\ IF username[c] = None
       THEN Respond(c, clients, rooms, joined, <<ErrorFrame("register first")>>, username[c])
       ELSE IF room = None
       THEN Respond(c, clients, rooms, joined, <<ErrorFrame("room name required")>>, username[c])
       ELSE IF room \in DOMAIN rooms
       THEN Respond(c, clients, rooms, joined, <<ErrorFrame("room already exists")>>, username[c])
       ELSE LET rm == [r \in DOMAIN rooms \cup {room} |->
                          IF r = room THEN EmptyTable ELSE rooms[r]]
            IN  Respond(c, clients, rm, joined,
                        <<RoomCreatedFrame(room), RoomListFrame(rm)>>, username[c])
    /\ UNCHANGED <<lost, inbox, bc, nb>>

\* ---- handle_join_room ----------------------------------------------------
\* variant: the previous room keeps the name
JoinLeaveOld_KeepsOld(cl, rm, u) == rm

\* lines 167-170: leave the previous room
JoinLeaveOld(cl, rm, u) ==
    LET current_room == cl[u].room
    IN  IF current_room # None /\ u \in Members(RoomsGet(rm, current_room))
        THEN [rm EXCEPT ![current_room] = SetRemove(rm[current_room], u)]
        ELSE rm

\* variant: a room that does not exist is created by the join
JoinRoom_AutoCreates(c, room) ==
    /\ ReadLine(c)
    /\ IF username[c] = None
       THEN Respond(c, clients, rooms, joined, <<ErrorFrame("register first")>>, username[c])
       ELSE IF room = None
       THEN Respond(c, clients, rooms, joined, <<ErrorFrame("room name required")>>, username[c])
       ELSE LET u == username[c]
                rm0 == JoinLeaveOld(clients, rooms, u)
                old == IF room \in DOMAIN rooms THEN rm0[room] ELSE EmptyTable
            IN  \E t \in SetAdd(old, u) :
                  Respond(c,
                          [clients EXCEPT ![u].room = room],
                          [r \in DOMAIN rooms \cup {room} |->
                              IF r = room THEN t ELSE rm0[r]],
                          joined \cup {u},
                          <<RoomJoinedFrame(room)>>, u)
    /\ UNCHANGED <<lost, inbox, bc, nb>>

\* variant: line 174 is missing, the room field keeps the previous room
JoinRoom_KeepsField(c, room) ==
    /\ ReadLine(c)
    /\ IF username[c] = None
       THEN Respond(c, clients, rooms, joined, <<ErrorFrame("register first")>>, username[c])
       ELSE IF room = None
       THEN Respond(c, clients, rooms, joined, <<ErrorFrame("room name required")>>, username[c])
       ELSE IF room \notin DOMAIN rooms
       THEN Respond(c, clients, rooms, joined, <<ErrorFrame("room does not exist")>>, username[c])
       ELSE LET u == username[c]
                rm1 == JoinLeaveOld(clients, rooms, u)
            IN  \E t \in SetAdd(rm1[room], u) :
                  Respond(c,
                          clients,
                          [rm1 EXCEPT ![room] = t],
                          joined \cup {u},
                          <<RoomJoinedFrame(room)>>, u)
    /\ UNCHANGED <<lost, inbox, bc, nb>>

JoinRoom(c, room) ==
    /\ ReadLine(c)
    /\ IF username[c] = None
       THEN Respond(c, clients, rooms, joined, <<ErrorFrame("register first")>>, username[c])
       ELSE IF room = None
       THEN Respond(c, clients, rooms, joined, <<ErrorFrame("room name required")>>, username[c])
       ELSE IF room \notin DOMAIN rooms
       THEN Respond(c, clients, rooms, joined, <<ErrorFrame("room does not exist")>>, username[c])
       ELSE LET u == username[c]
                rm1 == JoinLeaveOld(clients, rooms, u)
            IN  \E t \in SetAdd(rm1[room], u) :
                  Respond(c,
                          [clients EXCEPT ![u].room = room],
                          [rm1 EXCEPT ![room] = t],
                          joined \cup {u},
                          <<RoomJoinedFrame(room)>>, u)
    /\ UNCHANGED <<lost, inbox, bc, nb>>

\* ---- handle_leave_room ---------------------------------------------------
\* variant: line 190 is missing, the room field keeps the room that was left
LeaveRoom_KeepsField(c) ==
    /\ ReadLine(c)
    /\ IF username[c] = None
       THEN Respond(c, clients, rooms, joined, <<ErrorFrame("register first")>>, username[c])
       ELSE LET u == username[c]
                current_room == clients[u].room
            IN  IF current_room # None /\ u \in Members(RoomsGet(rooms, current_room))
                THEN Respond(c,
                             clients,
                             [rooms EXCEPT ![current_room] = SetRemove(rooms[current_room], u)],
                             joined \ {u},
                             <<RoomLeftFrame(current_room)>>, u)
                ELSE Respond(c, clients, rooms, joined, <<ErrorFrame("not in a room")>>, u)
    /\ UNCHANGED <<lost, inbox, bc, nb>>

\* variant: leave_room means "back to the default room"
LeaveRoom_ToDefault(c) ==
    /\ ReadLine(c)
    /\ IF username[c] = None
       THEN Respond(c, clients, rooms, joined, <<ErrorFrame("register first")>>, username[c])
       ELSE LET u == username[c]
                current_room == clients[u].room
            IN  IF current_room # None /\ u \in Members(RoomsGet(rooms, current_room))
                THEN LET rm1 == [rooms EXCEPT ![current_room] =
                                    SetRemove(rooms[current_room], u)]
                     IN  \E t \in SetAdd(rm1[DefaultRoom], u) :
                           Respond(c,
                                   [clients EXCEPT ![u].room = DefaultRoom],
                                   [rm1 EXCEPT ![DefaultRoom] = t],
                                   joined \ {u},
                                   <<RoomLeftFrame(current_room)>>, u)
                ELSE Respond(c, clients, rooms, joined, <<ErrorFrame("not in a room")>>, u)
    /\ UNCHANGED <<lost, inbox, bc, nb>>

\* variant: a room other than "general" that the leave empties is deleted
LeaveRoom_DeletesEmpty(c) ==
    /\ ReadLine(c)
    /\ IF username[c] = None
       THEN Respond(c, clients, rooms, joined, <<ErrorFrame("register first")>>, username[c])
       ELSE LET u == username[c]
                current_room == clients[u].room
            IN  IF current_room # None /\ u \in Members(RoomsGet(rooms, current_room))
                THEN Respond(c,
                             [clients EXCEPT ![u].room = None],
                             IF current_room # DefaultRoom
                                /\ Members(rooms[current_room]) = {u}
                             THEN [r \in DOMAIN rooms \ {current_room} |-> rooms[r]]
                             ELSE [rooms EXCEPT ![current_room] =
                                     SetRemove(rooms[current_room], u)],
                             joined \ {u},
                             <<RoomLeftFrame(current_room)>>, u)
                ELSE Respond(c, clients, rooms, joined, <<ErrorFrame("not in a room")>>, u)
    /\ UNCHANGED <<lost, inbox, bc, nb>>

LeaveRoom(c) ==
    /\ ReadLine(c)
    /\ IF username[c] = None
       THEN Respond(c, clients, rooms, joined, <<ErrorFrame("register first")>>, username[c])
       ELSE LET u == username[c]
                current_room == clients[u].room
            IN  IF current_room # None /\ u \in Members(RoomsGet(rooms, current_room))
                THEN Respond(c,
                             [clients EXCEPT ![u].room = None],
                             [rooms EXCEPT ![current_room] = SetRemove(rooms[current_room], u)],
                             joined \ {u},
                             <<RoomLeftFrame(current_room)>>, u)
                ELSE Respond(c, clients, rooms, joined, <<ErrorFrame("not in a room")>>, u)
    /\ UNCHANGED <<lost, inbox, bc, nb>>

\* ---- broadcast_room ------------------------------------------------------
NoBroadcast ==
    [state |-> "none", room |-> None, payload |-> None, seq |-> 0,
     it |-> [pos |-> 0, used |-> 0], start |-> {}, startJoined |-> {},
     got |-> <<>>, failed |-> {}]

\* lines 224-225: the call; `start` remembers the members at that moment,
\* `startJoined` those of them that came in by join_room
NewBroadcast(rm, room, payload, seq) ==
    [state |-> "running", room |-> room, payload |-> payload, seq |-> seq,
     it |-> NewIter(RoomsGet(rm, room)), start |-> Members(RoomsGet(rm, room)),
     startJoined |-> Members(RoomsGet(rm, room)) \cap joined,
     got |-> <<>>, failed |-> {}]

\* writer.write(data); await writer.drain() inside the try of line 228
WriteFails(w) == lost[w] \/ pc[w] = "closed"

\* variant: no try/except around write and drain, the failure of a write
\* leaves broadcast_room
Deliver_Uncaught(c, b, n, user) ==
    IF user \notin DOMAIN clients
    THEN /\ bc' = [bc EXCEPT ![c] = NoBroadcast]
         /\ Terminate(c, "KeyError", clients, rooms, joined, username[c])
         /\ UNCHANGED inbox
    ELSE LET writer == clients[user].writer
         IN  IF WriteFails(writer)
             THEN /\ inbox' = [inbox EXCEPT ![writer] =
                                 Append(@, [seq |-> b.seq, frame |-> b.payload])]
                  /\ bc' = [bc EXCEPT ![c] = NoBroadcast]
                  /\ Terminate(c, "ConnectionError", clients, rooms, joined, username[c])
             ELSE /\ inbox' = [inbox EXCEPT ![writer] =
                                 Append(@, [seq |-> b.seq, frame |-> b.payload])]
                  /\ bc' = [bc EXCEPT ![c] =
                              [b EXCEPT !.it.pos = n, !.got = Append(@, user)]]
                  /\ pc' = [pc EXCEPT ![c] = "drain"]
                  /\ UNCHANGED <<clients, rooms, username, exit, joined>>

\* lines 227-232, the body of the for loop for the member `user` found in
\* slot n: look up its writer, write, drain.  A failing write is caught
\* and logged, and the task is suspended in drain with the loop still on.
Deliver(c, b, n, user) ==
    IF user \notin DOMAIN clients
    THEN /\ bc' = [bc EXCEPT ![c] = NoBroadcast]
         /\ Terminate(c, "KeyError", clients, rooms, joined, username[c])
         /\ UNCHANGED inbox
    ELSE LET writer == clients[user].writer
         IN  /\ inbox' = [inbox EXCEPT ![writer] =
                            Append(@, [seq |-> b.seq, frame |-> b.payload])]
             /\ bc' = [bc EXCEPT ![c] =
                         [b EXCEPT !.it.pos = n,
                                   !.got = Append(@, user),
                                   !.failed = IF WriteFails(writer)
                                              THEN @ \cup {user} ELSE @]]
             /\ pc' = [pc EXCEPT ![c] = "drain"]
             /\ UNCHANGED <<clients, rooms, username, exit, joined>>

\* One turn of the for loop of line 226 for the broadcast b of task c: fetch
\* the next member from the live set; RuntimeError leaves broadcast_room
\* and handle_send_message and ends the loop of handle_client.
BroadcastIterate(c, b) ==
    LET t == RoomsGet(rooms, b.room)
        n == IterNext(t, b.it)
    IN  IF n.tag = "RuntimeError"
        THEN /\ bc' = [bc EXCEPT ![c] = NoBroadcast]
             /\ Terminate(c, "RuntimeError", clients, rooms, joined, username[c])
             /\ UNCHANGED inbox
        ELSE IF n.tag = "StopIteration"
        THEN /\ bc' = [bc EXCEPT ![c] = NoBroadcast]
             /\ pc' = [pc EXCEPT ![c] = "readline"]
             /\ UNCHANGED <<clients, rooms, username, exit, joined, inbox>>
        ELSE Deliver(c, b, n.slot, t[n.slot])

\* ---- handle_send_message -------------------------------------------------
SendMessage(c, text) ==
    /\ ReadLine(c)
    /\ IF username[c] = None
       THEN /\ Respond(c, clients, rooms, joined, <<ErrorFrame("register first")>>, username[c])
            /\ UNCHANGED <<inbox, bc, nb>>
       ELSE IF text = None
       THEN /\ Respond(c, clients, rooms, joined, <<ErrorFrame("message required")>>, username[c])
            /\ UNCHANGED <<inbox, bc, nb>>
       ELSE LET room == clients[username[c]].room
            IN  IF room = None
                THEN /\ Respond(c, clients, rooms, joined, <<ErrorFrame("join a room first")>>, username[c])
                     /\ UNCHANGED <<inbox, bc, nb>>
                ELSE /\ nb' = nb + 1
                     /\ resp' = NoResponse
                     /\ BroadcastIterate(c,
                          NewBroadcast(rooms, room,
                                       ChatFrame(room, username[c], text), nb + 1))
    /\ UNCHANGED lost

\* the drain of line 230 returned (or raised into the except of line 231):
\* the for loop goes on
BroadcastResume(c) ==
    /\ pc[c] = "drain"
    /\ BroadcastIterate(c, bc[c])
    /\ resp' = NoResponse
    /\ UNCHANGED <<lost, nb, nreq>>

\* ---- frames that reach no handler (lines 65-71 and 84-85) ----------------
\* json.loads raises JSONDecodeError: error frame, `continue`
InvalidJSON(c) ==
    /\ ReadLine(c)
    /\ Respond(c, clients, rooms, joined, <<ErrorFrame("Invalid JSON")>>, username[c])
    /\ UNCHANGED <<lost, inbox, bc, nb>>

\* json.loads returns a list, a string, a number or null: message.get of
\* line 71 raises AttributeError, which the `except Exception` of line 88
\* catches outside the while loop
NotAnObject(c) ==
    /\ ReadLine(c)
    /\ resp' = NoResponse
    /\ Terminate(c, "AttributeError", clients, rooms, joined, username[c])
    /\ UNCHANGED <<lost, inbox, bc, nb>>

\* an object without "action" (message.get returns None) or with an action
\* that no branch names: the else of line 84
UnknownAction(c) ==
    /\ ReadLine(c)
    /\ Respond(c, clients, rooms, joined, <<ErrorFrame("Unknown action")>>, username[c])
    /\ UNCHANGED <<lost, inbox, bc, nb>>

\* ---- the ways a handler loop ends ----------------------------------------
\* readline returned b'' (peer closed) or raised (stream error)
Disconnect(c) ==
    /\ pc[c] = "readline"
    /\ Terminate(c, "eof", clients, rooms, joined, username[c])
    /\ resp' = NoResponse
    /\ UNCHANGED <<lost, inbox, bc, nb, nreq>>

\* the task is cancelled at the await it is suspended in
Cancel(c) ==
    /\ pc[c] \in {"readline", "drain"}
    /\ Terminate(c, "cancelled", clients, rooms, joined, username[c])
    /\ bc' = [bc EXCEPT ![c] = NoBroadcast]
    /\ resp' = NoResponse
    /\ UNCHANGED <<lost, inbox, nb, nreq>>

\* the peer of connection c goes away: later drains on its writer raise
ConnectionLost(c) ==
    /\ pc[c] # "closed"
    /\ ~lost[c]
    /\ lost' = [lost EXCEPT ![c] = TRUE]
    /\ resp' = NoResponse
    /\ UNCHANGED <<clients, rooms, pc, username, inbox, bc, exit, joined, nb, nreq>>

\* ---- the server ----------------------------------------------------------
Init ==
    /\ clients = [n \in {} |-> None]
    /\ rooms = [r \in {DefaultRoom} |-> EmptyTable]
    /\ pc = [c \in Conns |-> "readline"]
    /\ username = [c \in Conns |-> None]
    /\ lost = [c \in Conns |-> FALSE]
    /\ resp = NoResponse
    /\ inbox = [c \in Conns |-> <<>>]
    /\ bc = [c \in Conns |-> NoBroadcast]
    /\ exit = [c \in Conns |-> "open"]
    /\ joined = {}
    /\ nb = 0
    /\ nreq = 0

Next ==
    \/ \E c \in Conns, name \in Names \cup {None} : Register(c, name)
    \/ \E c \in Conns : ListRooms(c)
    \/ \E c \in Conns, room \in RoomNames \cup {None} : CreateRoom(c, room)
    \/ \E c \in Conns, room \in RoomNames \cup {None} : JoinRoom(c, room)
    \/ \E c \in Conns : LeaveRoom(c)
    \/ \E c \in Conns, text \in Texts \cup {None} : SendMessage(c, text)
    \/ \E c \in Conns : BroadcastResume(c)
    \/ \E c \in Conns : InvalidJSON(c)
    \/ \E c \in Conns : NotAnObject(c)
    \/ \E c \in Conns : UnknownAction(c)
    \/ \E c \in Conns : Disconnect(c)
    \/ \E c \in Conns : Cancel(c)
    \/ \E c \in Conns : ConnectionLost(c)

Spec == Init /\ [][Next]_vars

\* ---- helpers of the properties -------------------------------------------
Range(q) == {q[i] : i \in 1 .. Len(q)}
RoomsOf(rm, u) == {r \in DOMAIN rm : u \in Members(rm[r])}
\* the step ends the broadcast of task c otherwise than by cancelling c
BroadcastEnds(c) ==
    /\ pc[c] = "drain"
    /\ pc'[c] # "drain"
    /\ exit'[c] # "cancelled"
BroadcastStarts(c) == pc[c] = "readline" /\ pc'[c] = "drain"
\* the step is a loop turn of task c that wrote to a member
BroadcastWrites(c) == pc'[c] = "drain" /\ bc'[c] # bc[c]
LastWritten(c) == bc'[c].got[Len(bc'[c].got)]

\* ---- C1 ------------------------------------------------------------------
\* C1: once the handler loop of a connection has ended, no session record
\* created by that connection is left in clients and no room holds a name
\* that connection registered.
C1_CleanupAfterExit ==
    \A c \in Conns : pc[c] = "closed" =>
        /\ \A u \in DOMAIN clients : clients[u].writer # c
        /\ \A r \in DOMAIN rooms : \A u \in Members(rooms[r]) :
              u \in DOMAIN clients => clients[u].writer # c

\* ---- C2 ------------------------------------------------------------------
\* C2: a broadcast never fails on a change of the member set, and when it
\* ends it has written exactly once to each member the room had when it
\* started, and to nobody else.
C2_SnapshotDelivery ==
    [][\A c \in Conns :
          /\ pc[c] = "drain" => exit'[c] \notin {"RuntimeError", "KeyError"}
          /\ BroadcastEnds(c) =>
                /\ Range(bc[c].got) = bc[c].start
                /\ Len(bc[c].got) = Cardinality(bc[c].start)]_vars

\* ---- C3 ------------------------------------------------------------------
\* C3: what happens on one connection never ends the handler loop of
\* another and never changes another connection's sessions: a task inside a
\* broadcast stays connected and registered unless it is itself cancelled,
\* and a session record changes or disappears only in a step of the
\* connection that owns it.
C3_FaultIsolation ==
    [][/\ \A c \in Conns : pc[c] = "drain" /\ pc'[c] = "closed" =>
              exit'[c] = "cancelled"
       /\ \A u \in DOMAIN clients :
              (u \notin DOMAIN clients' \/ clients'[u] # clients[u]
                  \/ RoomsOf(rooms', u) # RoomsOf(rooms, u)) =>
              LET w == clients[u].writer
              IN  resp'.conn = w \/ (pc[w] # "closed" /\ pc'[w] = "closed")]_vars

\* ---- C4 ------------------------------------------------------------------
\* C4: every username is in the member set of at most one room.
C4_AtMostOneRoom ==
    \A u \in Names : Cardinality(RoomsOf(rooms, u)) <= 1

\* a session that moved from the default room into another room
C4_Witness ==
    \E u \in DOMAIN clients :
        /\ clients[u].room # DefaultRoom
        /\ clients[u].room \in DOMAIN rooms
        /\ u \in Members(rooms[clients[u].room])
        /\ u \in joined

\* ---- C5 ------------------------------------------------------------------
\* C5: every name in a room's member set has a record in clients, and the
\* lookup clients[user] of broadcast_room never fails.
C5_NoDanglingMember ==
    /\ \A r \in DOMAIN rooms : Members(rooms[r]) \subseteq DOMAIN clients
    /\ \A c \in Conns : exit[c] # "KeyError"

\* a name freed by the cleanup of one connection is registered by another
C5_Witness ==
    \E c, d \in Conns :
        /\ c # d
        /\ pc[c] = "closed"
        /\ username[c] \in DOMAIN clients
        /\ clients[username[c]].writer = d
        /\ username[c] \in Members(rooms[DefaultRoom])

\* ---- C6 ------------------------------------------------------------------
\* C6: a register request for a name that has a record is answered with the
\* error "username already taken"; it creates no record, it leaves the
\* tables as they are while the requester's loop goes on, and it never
\* touches the record or the membership of a session of another connection.
C6_NameTaken ==
    [][\A c \in Conns : \A name \in Names :
          (Register(c, name) /\ name \in DOMAIN clients) =>
             /\ resp' = [conn |-> c, frames |-> <<ErrorFrame("username already taken")>>]
             /\ DOMAIN clients' \subseteq DOMAIN clients
             /\ pc'[c] = "readline" => clients' = clients /\ rooms' = rooms
             /\ clients[name].writer # c =>
                   /\ name \in DOMAIN clients'
                   /\ clients'[name] = clients[name]
                   /\ RoomsOf(rooms', name) = RoomsOf(rooms, name)]_vars

\* the error was sent and the session that holds the name is still there
C6_Witness ==
    /\ resp.conn \in Conns
    /\ resp.frames = <<ErrorFrame("username already taken")>>
    /\ \E u \in DOMAIN clients : clients[u].writer # resp.conn

\* ---- C7 ------------------------------------------------------------------
\* C7: a successful join_room(T) by session u takes u out of its previous
\* room, puts it into T, sets its room field to T and changes nothing else;
\* a broadcast writes only to names that are members of its room, and a
\* broadcast to T that starts while u is in T by a join has written to u
\* when it ends, as long as u is still in T.
C7_JoinMovesSession ==
    [][/\ \A c \in Conns : \A T \in RoomNames :
             (JoinRoom(c, T) /\ pc'[c] = "readline"
                 /\ resp'.frames = <<RoomJoinedFrame(T)>>) =>
                LET u == username[c]
                IN  /\ DOMAIN rooms' = DOMAIN rooms
                    /\ \A r \in DOMAIN rooms :
                          Members(rooms'[r]) =
                             IF r = T THEN Members(rooms[r]) \cup {u}
                             ELSE Members(rooms[r]) \ {u}
                    /\ clients' = [clients EXCEPT ![u].room = T]
       /\ \A c \in Conns : BroadcastWrites(c) =>
             LastWritten(c) \in Members(rooms[bc'[c].room])
       /\ \A c \in Conns : BroadcastEnds(c) =>
             \A u \in bc[c].startJoined :
                (u \in joined /\ u \in Members(rooms[bc[c].room])) =>
                    u \in Range(bc[c].got)]_vars

\* ---- C8 ------------------------------------------------------------------
\* C8: send_message of session u in room R hands the frame chat_message(R,
\* u, text) to the writer of every member R has when the broadcast starts,
\* once each, and to no connection whose session is in another room or in
\* none.
C8_SendReachesRoom ==
    [][\A c \in Conns :
          /\ BroadcastStarts(c) =>
                /\ bc'[c].start = Members(rooms[clients[username[c]].room])
                /\ \E text \in Texts :
                      bc'[c].payload =
                         ChatFrame(clients[username[c]].room, username[c], text)
          /\ BroadcastWrites(c) =>
                LET w == clients[LastWritten(c)].writer
                IN  /\ inbox'[w] = Append(inbox[w],
                                          [seq |-> bc'[c].seq, frame |-> bc'[c].payload])
                    /\ username[w] \in DOMAIN clients =>
                          clients[username[w]].room = bc'[c].room
          /\ BroadcastEnds(c) =>
                /\ bc[c].start \subseteq Range(bc[c].got)
                /\ Len(bc[c].got) <= Cardinality(bc[c].start)]_vars

\* ---- C9 ------------------------------------------------------------------
\* C9: on every connection the chat frames of one room appear in the order
\* in which their broadcasts were invoked.
C9_BroadcastOrder ==
    \A c \in Conns : \A i, j \in 1 .. Len(inbox[c]) :
        (i < j /\ inbox[c][i].frame.room = inbox[c][j].frame.room) =>
            inbox[c][i].seq <= inbox[c][j].seq

\* ---- C10 -----------------------------------------------------------------
\* C10: when the write to one member fails in a loop turn of a broadcast,
\* the turn changes no session record and no member set, ends no handler
\* loop, sends nothing to the sender, and leaves the loop running with its
\* iterator on the next member.
C10_DeliveryErrorContained ==
    [][\A c \in Conns :
          LET t == RoomsGet(rooms, bc[c].room)
              n == IterNext(t, bc[c].it)
          IN  (/\ pc[c] = "drain"
               /\ bc'[c] # bc[c]
               /\ exit'[c] # "cancelled"
               /\ n.tag = "item"
               /\ t[n.slot] \in DOMAIN clients
               /\ WriteFails(clients[t[n.slot]].writer)) =>
                  /\ clients' = clients
                  /\ rooms' = rooms
                  /\ pc' = [pc EXCEPT ![c] = "drain"]
                  /\ exit' = exit
                  /\ resp'.frames = <<>>
                  /\ bc'[c].state = "running"
                  /\ bc'[c].it = [pos |-> n.slot, used |-> bc[c].it.used]
                  /\ bc'[c].got = Append(bc[c].got, t[n.slot])]_vars

\* a broadcast went on to a further member after a failed write
C10_Witness ==
    \E c \in Conns :
        /\ pc[c] = "drain"
        /\ \E i, j \in 1 .. Len(bc[c].got) :
              /\ i < j
              /\ bc[c].got[i] \in bc[c].failed
              /\ bc[c].got[j] \notin bc[c].failed

\* ---- C11 -----------------------------------------------------------------
\* C11: a frame that is not JSON, is JSON but no object, has no action or
\* has an unknown action is answered with one error frame on its own
\* connection, changes neither table, and leaves the connection's loop
\* reading as long as the connection has its peer.
C11_MalformedKeepsOpen ==
    [][\A c \in Conns :
          (InvalidJSON(c) \/ NotAnObject(c) \/ UnknownAction(c)) =>
             /\ resp'.conn = c
             /\ Len(resp'.frames) = 1
             /\ resp'.frames[1].type = "error"
             /\ ~lost[c] => /\ pc'[c] = "readline"
                            /\ clients' = clients
                            /\ rooms' = rooms
                            /\ username' = username]_vars

\* ---- C12 -----------------------------------------------------------------
\* connection c read one request and was answered with exactly one error
\* frame, which its peer was there to receive
ErrorAnswered(c) ==
    /\ nreq' = nreq + 1
    /\ ~lost[c]
    /\ resp'.conn = c
    /\ Len(resp'.frames) = 1
    /\ resp'.frames[1].type = "error"

\* C12: a request answered with an error frame changes no state: the session
\* table, the room table and the identity under which the requesting
\* connection is registered are the same after the request as before it.
C12_ErrorChangesNothing ==
    [][\A c \in Conns :
          ErrorAnswered(c) =>
             /\ clients' = clients
             /\ rooms' = rooms
             /\ username'[c] = username[c]]_vars

\* ---- C13 -----------------------------------------------------------------
\* connection c sends one of the four requests that need an identity
NeedsIdentity(c) ==
    \/ \E r \in RoomNames \cup {None} : CreateRoom(c, r)
    \/ \E r \in RoomNames \cup {None} : JoinRoom(c, r)
    \/ LeaveRoom(c)
    \/ \E t \in Texts \cup {None} : SendMessage(c, t)

\* C13: a connection without a registered identity that sends create_room,
\* join_room, leave_room or send_message is written exactly one error frame;
\* nothing is written to any other connection and no broadcast starts, both
\* tables keep their value, and the loop of a connection that has its peer
\* goes on reading.
C13_UnregisteredRejected ==
    [][\A c \in Conns :
          (username[c] = None /\ NeedsIdentity(c)) =>
             /\ resp' = [conn |-> c, frames |-> <<ErrorFrame("register first")>>]
             /\ inbox' = inbox
             /\ bc' = bc
             /\ nb' = nb
             /\ clients' = clients
             /\ rooms' = rooms
             /\ ~lost[c] => (pc'[c] = "readline" /\ exit'[c] = "open")]_vars

\* an unregistered connection was just turned away while another session
\* sits in a room
C13_Witness ==
    /\ \E c \in Conns :
          /\ username[c] = None
          /\ pc[c] = "readline"
          /\ resp = [conn |-> c, frames |-> <<ErrorFrame("register first")>>]
    /\ \E u \in DOMAIN clients : clients[u].room # None

\* ---- C14 -----------------------------------------------------------------
\* C14 as stated: a join_room of a registered session that names a room
\* which does not exist is answered room_joined for that room, makes the
\* session a member of it and puts the room into the list of rooms.
C14_JoinCreatesRoom ==
    [][\A c \in Conns : \A T \in RoomNames :
          (JoinRoom(c, T) /\ username[c] # None /\ ~lost[c]
              /\ T \notin DOMAIN rooms) =>
             /\ resp' = [conn |-> c, frames |-> <<RoomJoinedFrame(T)>>]
             /\ T \in DOMAIN rooms'
             /\ username[c] \in Members(rooms'[T])
             /\ T \in RoomListFrame(rooms').rooms]_vars

\* C14 amended: a join_room of a registered session that names a room which
\* does not exist is answered with the error "room does not exist" and
\* changes nothing; a room comes into being by create_room only, and a
\* join_room that names an existing room is answered room_joined and makes
\* the session a member of it; list_rooms answers the keys of the room
\* table, from which no room is ever taken out.
C14_JoinNeedsRoom ==
    [][/\ \A c \in Conns : \A T \in RoomNames :
             (JoinRoom(c, T) /\ username[c] # None /\ ~lost[c]) =>
                IF T \notin DOMAIN rooms
                THEN /\ resp' = [conn |-> c,
                                 frames |-> <<ErrorFrame("room does not exist")>>]
                     /\ clients' = clients
                     /\ rooms' = rooms
                     /\ pc'[c] = "readline"
                ELSE /\ resp' = [conn |-> c, frames |-> <<RoomJoinedFrame(T)>>]
                     /\ username[c] \in Members(rooms'[T])
                     /\ clients'[username[c]].room = T
                     /\ T \in RoomListFrame(rooms').rooms
       /\ \A c \in Conns : \A T \in RoomNames :
             (CreateRoom(c, T) /\ username[c] # None /\ ~lost[c]
                 /\ T \notin DOMAIN rooms) =>
                /\ T \in DOMAIN rooms'
                /\ resp'.frames = <<RoomCreatedFrame(T), RoomListFrame(rooms')>>
       /\ \A c \in Conns :
             (ListRooms(c) /\ ~lost[c]) =>
                resp' = [conn |-> c,
                         frames |-> <<[type |-> "room_list", rooms |-> DOMAIN rooms]>>]
       /\ DOMAIN rooms \subseteq DOMAIN rooms'
       /\ \A T \in DOMAIN rooms' \ DOMAIN rooms :
             \E c \in Conns : CreateRoom(c, T)]_vars

\* a registered session has just been refused a room that does not exist
C14_Witness ==
    \E c \in Conns : \E T \in RoomNames :
       /\ T \notin DOMAIN rooms
       /\ username[c] \in DOMAIN clients
       /\ pc[c] = "readline"
       /\ resp = [conn |-> c, frames |-> <<ErrorFrame("room does not exist")>>]

\* ---- C15 -----------------------------------------------------------------
\* C15: in every reachable state the default room "general" is a key of the
\* room table, and every room_list frame the server writes contains it,
\* also when the room has no member.
C15_DefaultRoomStays ==
    /\ DefaultRoom \in DOMAIN rooms
    /\ \A i \in 1 .. Len(resp.frames) :
          resp.frames[i].type = "room_list" => DefaultRoom \in resp.frames[i].rooms

\* a room list was just written while "general" is empty although a session
\* is registered and a connection has gone
C15_Witness ==
    /\ DefaultRoom \in DOMAIN rooms
    /\ Members(rooms[DefaultRoom]) = {}
    /\ DOMAIN clients # {}
    /\ \E c \in Conns : pc[c] = "closed"
    /\ Len(resp.frames) = 1
    /\ resp.frames[1].type = "room_list"

\* ---- C16 -----------------------------------------------------------------
\* C16: leave_room of a registered session u that is a member of room R
\* takes u out of R, sets its room field to none and answers room_left(R);
\* leave_room of a session that is in no room is answered with an error and
\* changes nothing; send_message of a session that is in no room is answered
\* with an error and starts no broadcast; and no broadcast writes to a
\* session whose room field is none.  (Requests of a connection that still
\* has its peer.)
C16_LeaveMakesRoomless ==
    [][/\ \A c \in Conns : \A R \in DOMAIN rooms :
             (LeaveRoom(c) /\ username[c] # None /\ ~lost[c]
                 /\ username[c] \in Members(rooms[R])) =>
                LET u == username[c]
                IN  /\ resp' = [conn |-> c, frames |-> <<RoomLeftFrame(R)>>]
                    /\ DOMAIN rooms' = DOMAIN rooms
                    /\ \A r \in DOMAIN rooms :
                          Members(rooms'[r]) = Members(rooms[r]) \ {u}
                    /\ clients' = [clients EXCEPT ![u].room = None]
                    /\ pc'[c] = "readline"
       /\ \A c \in Conns :
             (LeaveRoom(c) /\ username[c] # None /\ ~lost[c]
                 /\ RoomsOf(rooms, username[c]) = {}) =>
                /\ resp' = [conn |-> c, frames |-> <<ErrorFrame("not in a room")>>]
                /\ clients' = clients
                /\ rooms' = rooms
                /\ pc'[c] = "readline"
       /\ \A c \in Conns : \A t \in Texts \cup {None} :
             (SendMessage(c, t) /\ username[c] # None /\ ~lost[c]
                 /\ RoomsOf(rooms, username[c]) = {}) =>
                /\ resp'.conn = c
                /\ Len(resp'.frames) = 1
                /\ resp'.frames[1].type = "error"
                /\ t # None => resp'.frames = <<ErrorFrame("join a room first")>>
                /\ inbox' = inbox
                /\ bc' = bc
                /\ clients' = clients
                /\ rooms' = rooms
                /\ pc'[c] = "readline"
       /\ \A c \in Conns : BroadcastWrites(c) =>
             /\ LastWritten(c) \in DOMAIN clients
             /\ clients[LastWritten(c)].room = bc'[c].room]_vars

\* a session that left its room has just been refused a send_message, and
\* another session is still in a room
C16_Witness ==
    \E c \in Conns :
       /\ username[c] \in DOMAIN clients
       /\ clients[username[c]].room = None
       /\ RoomsOf(rooms, username[c]) = {}
       /\ resp = [conn |-> c, frames |-> <<ErrorFrame("join a room first")>>]
       /\ \E u \in DOMAIN clients : clients[u].room # None

\* ---- C17 -----------------------------------------------------------------
\* C17: a register request with a username that has no session record
\* creates the record of that name, bound to the requesting connection and
\* with room "general", adds the name to the members of "general", and is
\* answered with the info frame "Registered as <name>" with room "general";
\* a register request without a username is answered with an error and
\* creates nothing.  (Requests of a connection that still has its peer.)
C17_RegisterCreatesSession ==
    [][/\ \A c \in Conns : \A name \in Names :
             (Register(c, name) /\ ~lost[c] /\ name \notin DOMAIN clients) =>
                /\ resp' = [conn |-> c,
                            frames |-> <<[type |-> "info",
                                          message |-> <<"Registered as", name>>,
                                          room |-> DefaultRoom]>>]
                /\ DOMAIN clients' = DOMAIN clients \cup {name}
                /\ clients'[name] = [writer |-> c, room |-> DefaultRoom]
                /\ \A n \in DOMAIN clients : clients'[n] = clients[n]
                /\ DOMAIN rooms' = DOMAIN rooms
                /\ \A r \in DOMAIN rooms :
                      Members(rooms'[r]) =
                         IF r = DefaultRoom THEN Members(rooms[r]) \cup {name}
                         ELSE Members(rooms[r])
                /\ username'[c] = name
                /\ pc'[c] = "readline"
       /\ \A c \in Conns :
             (Register(c, None) /\ ~lost[c]) =>
                /\ resp' = [conn |-> c, frames |-> <<ErrorFrame("username required")>>]
                /\ clients' = clients
                /\ rooms' = rooms
                /\ pc'[c] = "readline"]_vars

\* a name has just been registered next to the session of another connection
C17_Witness ==
    \E c \in Conns : \E name \in Names :
       /\ resp = [conn |-> c, frames |-> <<RegisteredFrame(name)>>]
       /\ name \in DOMAIN clients
       /\ clients[name] = [writer |-> c, room |-> DefaultRoom]
       /\ name \in Members(rooms[DefaultRoom])
       /\ \E n \in DOMAIN clients : clients[n].writer # c

\* ---- C18 -----------------------------------------------------------------
\* C18: create_room(T) of a registered session is answered with an error
\* when a room T exists, "general" included, and otherwise adds the room T
\* with no member; in both cases no session record and no member set of an
\* existing room changes, and the creator is not a member of the new room.
\* (Requests of a connection that still has its peer.)
C18_CreateRoomOnlyAdds ==
    [][\A c \in Conns : \A T \in RoomNames :
          (CreateRoom(c, T) /\ username[c] # None /\ ~lost[c]) =>
             /\ clients' = clients
             /\ \A r \in DOMAIN rooms : r \in DOMAIN rooms' /\ rooms'[r] = rooms[r]
             /\ pc'[c] = "readline"
             /\ IF T \in DOMAIN rooms
                THEN /\ resp' = [conn |-> c,
                                 frames |-> <<ErrorFrame("room already exists")>>]
                     /\ DOMAIN rooms' = DOMAIN rooms
                ELSE /\ resp'.conn = c
                     /\ resp'.frames[1] = RoomCreatedFrame(T)
                     /\ DOMAIN rooms' = DOMAIN rooms \cup {T}
                     /\ Members(rooms'[T]) = {}]_vars

\* a session of "general" has just created a room and is still in "general"
C18_Witness ==
    \E c \in Conns : \E T \in DOMAIN rooms \ {DefaultRoom} :
       /\ resp.conn = c
       /\ Len(resp.frames) = 2
       /\ resp.frames[1] = RoomCreatedFrame(T)
       /\ Members(rooms[T]) = {}
       /\ username[c] \in DOMAIN clients
       /\ clients[username[c]].room = DefaultRoom
       /\ username[c] \in Members(rooms[DefaultRoom])

\* ---- C19 -----------------------------------------------------------------
\* C19: in every reachable state, the states in which a task is suspended
\* in a drain included, the room field of every session record and the
\* member sets agree: clients[u].room = r exactly when u is a member of
\* rooms[r], and clients[u].room is none exactly when u is a member of no
\* room.
C19_FieldAgreesWithMembers ==
    \A u \in DOMAIN clients :
       /\ \A r \in DOMAIN rooms : clients[u].room = r <=> u \in Members(rooms[r])
       /\ clients[u].room = None <=> RoomsOf(rooms, u) = {}

\* a task is suspended in the drain of a broadcast while a session that was
\* a member when the broadcast started has left and another has moved to
\* a room or stayed in it
C19_Witness ==
    \E c \in Conns :
       /\ pc[c] = "drain"
       /\ \E u \in bc[c].start \cap DOMAIN clients : clients[u].room = None
       /\ \E v \in DOMAIN clients : clients[v].room # None

\* ---- C20 -----------------------------------------------------------------
\* the room-membership state of the session named u in the session table
\* cl; "Absent" is Unregistered before a step and Disconnected after it
SessionState(cl, u) ==
    IF u \notin DOMAIN cl THEN "Absent"
    ELSE IF cl[u].room = None THEN "Roomless"
    ELSE IF cl[u].room = DefaultRoom THEN "DefaultRoom"
    ELSE "OtherRoom"

\* the step changes the record of u: it appears, goes, or has another room
SessionChanges(u) ==
    \/ (u \in DOMAIN clients) # (u \in DOMAIN clients')
    \/ /\ u \in DOMAIN clients
       /\ u \in DOMAIN clients'
       /\ clients'[u].room # clients[u].room

\* C20 as stated: every change of a session's room-membership state is
\* Unregistered to DefaultRoom, DefaultRoom to OtherRoom, OtherRoom to
\* OtherRoom, OtherRoom to Roomless, or any state to Disconnected.
C20_StatedTransitionsOnly ==
    [][\A u \in Names : SessionChanges(u) =>
          \/ SessionState(clients', u) = "Absent"
          \/ <<SessionState(clients, u), SessionState(clients', u)>> \in
                {<<"Absent", "DefaultRoom">>, <<"DefaultRoom", "OtherRoom">>,
                 <<"OtherRoom", "OtherRoom">>, <<"OtherRoom", "Roomless">>}]_vars

\* C20 amended: every change of a session's room-membership state is one
\* of: Unregistered to DefaultRoom by a register of that name; DefaultRoom,
\* OtherRoom or Roomless to the room named by a join_room of the session's
\* connection, "general" included; DefaultRoom or OtherRoom to Roomless by
\* a leave_room of the session's connection; any state to Disconnected
\* when the loop of the session's connection ends.
C20_CodeTransitionsOnly ==
    [][\A u \in Names : SessionChanges(u) =>
          LET a == SessionState(clients, u)
              b == SessionState(clients', u)
          IN  IF a = "Absent"
              THEN b = "DefaultRoom" /\ \E c \in Conns : Register(c, u)
              ELSE IF b = "Absent"
              THEN \E c \in Conns :
                      username[c] = u /\ pc[c] # "closed" /\ pc'[c] = "closed"
              ELSE IF b = "Roomless"
              THEN /\ a \in {"DefaultRoom", "OtherRoom"}
                   /\ \E c \in Conns : username[c] = u /\ LeaveRoom(c)
              ELSE /\ a \in {"DefaultRoom", "OtherRoom", "Roomless"}
                   /\ \E c \in Conns :
                         username[c] = u /\ JoinRoom(c, clients'[u].room)]_vars

\* a session that can only have been in "general" has just been made
\* roomless by its leave_room
C20_Witness ==
    \E c \in Conns :
       /\ DOMAIN rooms = {DefaultRoom}
       /\ username[c] \in DOMAIN clients
       /\ clients[username[c]].room = None
       /\ resp = [conn |-> c, frames |-> <<RoomLeftFrame(DefaultRoom)>>]

\* ---- C21 -----------------------------------------------------------------
\* C21: in every reachable state a connection is bound to at most one
\* session: no two records of the session table hold the same writer, so
\* no broadcast has written twice to one connection.
C21_OneSessionPerConnection ==
    /\ \A u, v \in DOMAIN clients :
          clients[u].writer = clients[v].writer => u = v
    /\ \A w \in Conns : \A i, j \in 1 .. Len(inbox[w]) :
          inbox[w][i].seq = inbox[w][j].seq => i = j

\* ---- C22 -----------------------------------------------------------------
\* C22: no step takes a room out of the room table; a room name comes into
\* it by create_room only; a room that a step leaves without members stays
\* a key of the table, with an empty member set, and in the list of rooms;
\* and list_rooms answers the keys of the table and, for a connection that
\* still has its peer, changes nothing else.
C22_RoomsOnlyGrow ==
    [][/\ DOMAIN rooms \subseteq DOMAIN rooms'
       /\ \A T \in DOMAIN rooms' \ DOMAIN rooms :
             /\ Members(rooms'[T]) = {}
             /\ \E c \in Conns :
                   CreateRoom(c, T) /\ username[c] # None
       /\ \A r \in DOMAIN rooms :
             (Members(rooms[r]) # {} /\ Members(rooms'[r]) = {}) =>
                r \in RoomListFrame(rooms').rooms
       /\ \A c \in Conns : ListRooms(c) =>
             /\ resp'.conn = c
             /\ resp'.frames = <<[type |-> "room_list", rooms |-> DOMAIN rooms]>>
             /\ ~lost[c] => UNCHANGED <<clients, rooms, pc, username, lost,
                                        inbox, bc, exit, joined, nb>>]_vars

\* the last member of a room other than "general" has just left it, and the
\* room is there without members
C22_Witness ==
    \E c \in Conns : \E T \in DOMAIN rooms \ {DefaultRoom} :
       /\ resp = [conn |-> c, frames |-> <<RoomLeftFrame(T)>>]
       /\ Members(rooms[T]) = {}
       /\ pc[c] = "readline"
====
